---- MODULE Spec2Model ----
(***************************************************************************)
(* Model of the video-composition core of viral-engine-pro:                *)
(*   TemplateEngine.generateScenes / calculateDuration                     *)
(*   buildCompositionConfig, generateFFmpegCommand and its stage builders  *)
(* (src/frontend/lib/templates/template-engine.ts) and getCaptionStyle.    *)
(*                                                                         *)
(* Times are integers in tenths of a second: 3 s is 30, the 0.5 s buffer   *)
(* is 5 and words/2.5 is 4*words; the music volume 0.3 is 3 tenths.        *)
(* Strings the code builds are modelled                                    *)
(* structurally: a text is a sequence of one-character strings, a stream   *)
(* label is a record, a filter stage is a record and the command is the    *)
(* ordered input list plus the ordered stage list.  An optional field      *)
(* (x?: T) is the empty sequence when undefined and <<v>> when set.        *)
(***************************************************************************)
EXTENDS Integers, Sequences, FiniteSets, TLC

VARIABLES
    template,     \* the TemplateConfig of the job
    scriptParts,  \* script.split('\n\n')
    answers,      \* what the voice and background services answer per scene
    pc,           \* how far the job has come
    scenes,       \* VideoScene[] of generateScenes
    videoParams,  \* VideoCompositionParams handed to composeVideo, if any
    config,       \* the CompositionConfig object, if built
    commands,     \* the commands generateFFmpegCommand returned, in order
    transitionStages, \* the stages buildTransitionFilter returned, in order
    requests,     \* the per-scene voiceover and background requests of the job
    voiceoverResults, \* what `await this.synthesizeVoiceovers(..)` returned, if yet
    render,       \* the render job of composeVideo and its polling loop
    job,          \* the VideoGenerationJob processTemplate returned, if any
    thrown        \* the error processTemplate ended with, if any

pipelineVars == <<requests, voiceoverResults, render, job, thrown>>

vars == <<template, scriptParts, answers, pc, scenes, videoParams, config,
          commands, transitionStages, requests, voiceoverResults, render, job, thrown>>

----------------------------------------------------------------------------
(* Bounds *)

MaxScenes == 2

MaxCompiles == 2

MaxWords == 6

MaxEffects == 3

MaxText == 3

----------------------------------------------------------------------------
(* Generic helpers *)

None == <<>>

Some(x) == <<x>>

IsSome(o) == Len(o) > 0

Get(o) == o[1]

\* the non-empty sequences over S of length up to n
SeqsUpTo(S, n) == UNION {[1..k -> S] : k \in 1..n}

RECURSIVE Repeat(_, _)
Repeat(s, n) == IF n <= 0 THEN <<>> ELSE s \o Repeat(s, n - 1)

Max(a, b) == IF a >= b THEN a ELSE b

----------------------------------------------------------------------------
(* Texts *)

Whitespace == {" "}

IsSpace(c) == c \in Whitespace

\* "w w ... w" : n one-letter words joined by single blanks
Words(n) == IF n <= 0 THEN <<>> ELSE <<"a">> \o Repeat(<<" ", "a">>, n - 1)

\* number of maximal runs of whitespace in a text
SpaceRuns(text) ==
    Cardinality({i \in 1..Len(text) :
                    IsSpace(text[i]) /\ (i = 1 \/ ~IsSpace(text[i - 1]))})

\* text.split(/\s+/).length : one more piece than there are separators;
\* the pieces before a leading and after a trailing separator are ''
SplitLength(text) == SpaceRuns(text) + 1

----------------------------------------------------------------------------
(* TemplateEngine.calculateDuration, in tenths of a second *)

calculateDuration(text) ==
    LET words == SplitLength(text)
        baseDuration == 4 * words + 5
    IN  Max(baseDuration, 30)

----------------------------------------------------------------------------
(* Media references.  A URL is a record; '' is EmptyUrl. *)

EmptyUrl == [kind |-> "", n |-> 0]

Url(kind, n) == [kind |-> kind, n |-> n]

\* JavaScript truthiness of a string reference
Truthy(url) == url # EmptyUrl

----------------------------------------------------------------------------
(* TemplateEngine.generateScenes *)

\* scriptParts[i] || ''   (i is 0-based, as in the source)
ScriptPart(parts, i) == IF i + 1 <= Len(parts) THEN parts[i + 1] ELSE <<>>

\* sceneTemplate.duration || this.calculateDuration(text).  An undefined
\* duration and the number 0 are falsy, every other number is truthy.
sceneDuration(sceneTemplate, text) ==
    IF IsSome(sceneTemplate.duration) /\ Get(sceneTemplate.duration) # 0
    THEN Get(sceneTemplate.duration)
    ELSE calculateDuration(text)

generateScenes(tmpl, parts) ==
    [k \in 1..Len(tmpl.scenes) |->
        LET i == k - 1
            sceneTemplate == tmpl.scenes[k]
            text == ScriptPart(parts, i)
        IN  [id |-> i,
             text |-> text,
             duration |-> sceneDuration(sceneTemplate, text),
             backgroundType |-> sceneTemplate.backgroundType,
             captionStyle |-> sceneTemplate.captionStyle,
             effects |-> sceneTemplate.effects]]

\* scenes.reduce((sum, s) => sum + s.duration, 0) of processTemplate
RECURSIVE SumDurations(_, _)
SumDurations(ss, n) ==
    IF n <= 0 THEN 0 ELSE SumDurations(ss, n - 1) + ss[n].duration

jobDuration(ss) == SumDurations(ss, Len(ss))

----------------------------------------------------------------------------
(* TemplateEngine.synthesizeVoiceovers / generateBackgrounds: one entry    *)
(* per scene, in scene order, carrying what the external service answered. *)

synthesizeVoiceovers(ss, audio) ==
    [k \in 1..Len(ss) |-> [sceneId |-> ss[k].id, url |-> audio[k]]]

generateBackgrounds(ss, video) ==
    [k \in 1..Len(ss) |-> [sceneId |-> ss[k].id, url |-> video[k]]]

----------------------------------------------------------------------------
(* getCaptionStyle: the style registry, unknown ids fall back to modern *)

\* a style record of the registry; strokeColor and shadow are optional
CaptionStyle(family, size, color, strokeColor, strokeWidth, shadow, animation, position) ==
    [fontFamily |-> Some(family), fontSize |-> Some(size),
     color |-> Some(color), strokeColor |-> strokeColor,
     strokeWidth |-> strokeWidth, shadow |-> shadow,
     animation |-> Some(animation), position |-> Some(position)]

Shadow(x, y) == Some([x |-> x, y |-> y])

\* the keys of the object literal `styles`
StyleIds ==
    {"modern", "bold", "minimal", "neon", "retro", "handwritten", "comic",
     "elegant", "grunge", "kawaii", "alex-hormozi", "mr-beast", "vsauce"}

CaptionStyles ==
    [id \in StyleIds |->
       CASE id = "modern" ->
              CaptionStyle("Montserrat", 52, "#FFFFFF", Some("#000000"), 3,
                           Shadow(3, 3), "word-by-word", "bottom")
         [] id = "bold" ->
              CaptionStyle("Impact", 64, "#FFFF00", Some("#000000"), 6,
                           Shadow(4, 4), "word-by-word", "bottom")
         [] id = "minimal" ->
              CaptionStyle("Helvetica", 44, "#FFFFFF", None, 0,
                           Shadow(2, 2), "word-by-word", "center")
         [] id = "neon" ->
              CaptionStyle("Arial Black", 56, "#00FFFF", Some("#FF00FF"), 4,
                           Shadow(0, 0), "word-by-word", "bottom")
         [] id = "retro" ->
              CaptionStyle("Courier New", 48, "#FFD700", Some("#8B4513"), 3,
                           Shadow(5, 5), "letter-by-letter", "center")
         [] id = "handwritten" ->
              CaptionStyle("Comic Sans MS", 50, "#333333", None, 0,
                           Shadow(2, 2), "word-by-word", "bottom")
         [] id = "comic" ->
              CaptionStyle("Bangers", 60, "#FF0000", Some("#000000"), 5,
                           Shadow(3, 3), "word-by-word", "top")
         [] id = "elegant" ->
              CaptionStyle("Playfair Display", 46, "#F5F5DC", None, 0,
                           Shadow(2, 2), "line-by-line", "bottom")
         [] id = "grunge" ->
              CaptionStyle("Impact", 58, "#CCCCCC", Some("#000000"), 4,
                           Shadow(6, 6), "word-by-word", "bottom")
         [] id = "kawaii" ->
              CaptionStyle("Rounded Mplus 1c", 54, "#FF69B4", Some("#FFFFFF"), 5,
                           Shadow(3, 3), "word-by-word", "bottom")
         [] id = "alex-hormozi" ->
              CaptionStyle("Arial Black", 72, "#FFFFFF", Some("#FFD700"), 4,
                           Shadow(4, 4), "word-by-word", "center")
         [] id = "mr-beast" ->
              CaptionStyle("Impact", 68, "#FFFF00", Some("#000000"), 8,
                           Shadow(5, 5), "word-by-word", "bottom")
         [] id = "vsauce" ->
              CaptionStyle("Roboto", 50, "#FFFFFF", None, 0,
                           Shadow(3, 3), "line-by-line", "bottom")]

\* `styles` is an object literal, so styles[styleName] also finds the
\* properties every object inherits from Object.prototype
ObjectPrototypeKeys ==
    {"constructor", "toString", "toLocaleString", "valueOf", "hasOwnProperty",
     "isPrototypeOf", "propertyIsEnumerable", "__proto__",
     "__defineGetter__", "__defineSetter__", "__lookupGetter__",
     "__lookupSetter__"}

\* an inherited member (a function, or Object.prototype itself): a truthy
\* value with none of the fields of a style, every one reads undefined
InheritedMember ==
    [fontFamily |-> None, fontSize |-> None, color |-> None,
     strokeColor |-> None, strokeWidth |-> 0, shadow |-> None,
     animation |-> None, position |-> None]

\* return styles[styleName] || styles.modern
getCaptionStyle(styleName) ==
    IF styleName \in DOMAIN CaptionStyles THEN CaptionStyles[styleName]
    ELSE IF styleName \in ObjectPrototypeKeys THEN InheritedMember
    ELSE CaptionStyles["modern"]

----------------------------------------------------------------------------
(* TemplateEngine.composeVideo: the parameters handed to the compositor *)

composeParams(tmpl, ss, voiceovers, backgrounds, captionsEnabled) ==
    [scenes |-> ss,
     voiceovers |-> voiceovers,
     backgrounds |-> backgrounds,
     captions |-> [enabled |-> captionsEnabled,
                   style |-> IF tmpl.captionStyle = "" THEN "modern"
                             ELSE tmpl.captionStyle,
                   position |-> "bottom",
                   animation |-> "word-by-word"],
     music |-> [enabled |-> tmpl.music.enabled,
                track |-> IF IsSome(tmpl.music.defaultTrack)
                             /\ Truthy(Get(tmpl.music.defaultTrack))
                          THEN Get(tmpl.music.defaultTrack)
                          ELSE Url("music", 1),
                volume |-> 3],
     transitions |-> tmpl.transitions,
     effects |-> tmpl.globalEffects,
     outputFormat |-> "mp4",
     resolution |-> [width |-> 1080, height |-> 1920]]

----------------------------------------------------------------------------
(* buildCompositionConfig *)

FindUrlOfFirst(list, id) == IF Len(list) = 0 THEN EmptyUrl ELSE list[1].url

\* list.find(e => e.sceneId === id)?.url || ''
FindUrl(list, id) ==
    LET hits == {j \in 1..Len(list) : list[j].sceneId = id}
    IN  IF hits = {} THEN EmptyUrl
        ELSE list[CHOOSE j \in hits : \A h \in hits : j <= h].url

\* index < params.transitions.length ? params.transitions[index] : 'cut'
sceneTransition(params, index) ==
    IF index < Len(params.transitions)
    THEN params.transitions[index + 1]
    ELSE "cut"

\* the SceneConfig literal built for scene k (1-based) when the running
\* timestamp is currentTimestamp
buildSceneConfig(params, k, currentTimestamp) ==
    LET scene == params.scenes[k]
        index == k - 1
    IN  [startTime |-> currentTimestamp,
         endTime |-> currentTimestamp + scene.duration,
         duration |-> scene.duration,
         backgroundVideoUrl |-> FindUrl(params.backgrounds, scene.id),
         backgroundInputIndex |-> None,
         voiceoverAudioUrl |-> FindUrl(params.voiceovers, scene.id),
         voiceoverInputIndex |-> None,
         captions |-> IF params.captions.enabled
                      THEN Some([text |-> scene.text,
                                 style |-> getCaptionStyle(params.captions.style),
                                 position |-> params.captions.position,
                                 animation |-> params.captions.animation])
                      ELSE None,
         effects |-> scene.effects,
         transition |-> sceneTransition(params, index)]

advanceTimestampWithTransition(params, k, currentTimestamp) ==
    currentTimestamp + params.scenes[k].duration
        - (IF sceneTransition(params, k - 1) # "cut" THEN 5 ELSE 0)

\* currentTimestamp += scene.duration
advanceTimestamp(params, k, currentTimestamp) ==
    currentTimestamp + params.scenes[k].duration

\* params.scenes.forEach(...) after its first n iterations
RECURSIVE forEachScene(_, _)
forEachScene(params, n) ==
    IF n <= 0
    THEN [scenes |-> <<>>, currentTimestamp |-> 0]
    ELSE LET before == forEachScene(params, n - 1)
         IN  [scenes |-> Append(before.scenes,
                                buildSceneConfig(params, n, before.currentTimestamp)),
              currentTimestamp |-> advanceTimestamp(params, n, before.currentTimestamp)]

buildCompositionConfig(params) ==
    [resolution |-> params.resolution,
     outputFormat |-> params.outputFormat,
     scenes |-> forEachScene(params, Len(params.scenes)).scenes,
     globalEffects |-> params.effects,
     musicTrack |-> IF params.music.enabled THEN Some(params.music.track)
                    ELSE None,
     musicVolume |-> params.music.volume,
     musicInputIndex |-> None]

----------------------------------------------------------------------------
(* Stream labels and filter stages of the filter graph *)

\* "[name<i>suffix]"; i is -1 for labels that carry no number
Label(name, i, suffix) == [name |-> name, i |-> i, suffix |-> suffix]

\* "[<index>:v]" and "[<index>:a]"
InputLabel(index, stream) == Label("input", index, stream)

Opt(k, str, num) == [k |-> k, str |-> str, num |-> num]

Stage(op, ins, chain, nums, text, opts, out) ==
    [op |-> op, ins |-> ins, chain |-> chain, nums |-> nums,
     text |-> text, opts |-> opts, out |-> out]

----------------------------------------------------------------------------
(* buildCaptionFilter *)

\* str.replace(/c/g, '\\c') : every occurrence of the character c gets a
\* backslash in front of it
RECURSIVE ReplaceAll(_, _)
ReplaceAll(text, c) ==
    IF text = <<>> THEN <<>>
    ELSE (IF Head(text) = c THEN <<"\\", c>> ELSE <<Head(text)>>)
         \o ReplaceAll(Tail(text), c)

\* str.replace(c, '\\c') without the g flag: only the first occurrence
RECURSIVE ReplaceFirst(_, _)
ReplaceFirst(text, c) ==
    IF text = <<>> THEN <<>>
    ELSE IF Head(text) = c THEN <<"\\", c>> \o Tail(text)
    ELSE <<Head(text)>> \o ReplaceFirst(Tail(text), c)

escapeTextFirstOnly(text) ==
    ReplaceFirst(ReplaceFirst(ReplaceFirst(ReplaceFirst(text, "'"), ":"), "["), "]")

escapeText(text) ==
    ReplaceAll(ReplaceAll(ReplaceAll(ReplaceAll(text, "'"), ":"), "["), "]")

\* ${x} of a string field: an undefined field is written "undefined"
Interpolated(field) == IF IsSome(field) THEN Get(field) ELSE "undefined"

Positions ==
    [top |-> "(w-text_w)/2:h*0.1",
     center |-> "(w-text_w)/2:(h-text_h)/2",
     bottom |-> "(w-text_w)/2:h*0.85"]

buildCaptionFilter(captions, sceneIndex) ==
    LET style == captions.style
        escapedText == escapeText(captions.text)
        position == IF captions.position \in DOMAIN Positions
                    THEN Positions[captions.position]
                    ELSE Positions["center"]
        shadow == IF IsSome(style.shadow)
                  THEN <<Opt("shadowx", "", Get(style.shadow).x),
                         Opt("shadowy", "", Get(style.shadow).y)>>
                  ELSE <<>>
        enable == IF captions.animation = "word-by-word"
                  THEN <<Opt("enable", "between(t,0,3)", 0)>>
                  ELSE <<>>
    IN  Stage("drawtext",
              <<Label("v", sceneIndex, "_effects")>>,
              <<"drawtext">>,
              <<>>,
              escapedText,
              <<Opt("fontfile", Interpolated(style.fontFamily), 0),
                Opt("fontsize",
                    IF IsSome(style.fontSize) THEN "" ELSE "undefined",
                    IF IsSome(style.fontSize) THEN Get(style.fontSize) ELSE 0),
                Opt("fontcolor", Interpolated(style.color), 0),
                Opt("x", position, 0),
                Opt("borderw", "", style.strokeWidth),
                Opt("bordercolor",
                    IF IsSome(style.strokeColor) THEN Get(style.strokeColor)
                    ELSE "0x000000", 0)>>
                \o shadow \o enable,
              Label("v", sceneIndex, "_caption"))

----------------------------------------------------------------------------
(* buildEffectsFilter / buildGlobalEffectsFilter *)

\* the switch of buildEffectsFilter: the filter a tag adds, none for an
\* unknown tag
sceneEffectFilter(effect) ==
    CASE effect = "vignette" -> <<"vignette=angle=PI/4:mode=forward">>
      [] effect = "chromatic-aberration" -> <<"chromashift=crh=3:cbh=-3">>
      [] effect = "film-grain" -> <<"noise=c0s=20:allf=t">>
      [] effect = "blur" -> <<"boxblur=2:1">>
      [] effect = "sharpen" -> <<"unsharp=5:5:1.0:5:5:0.0">>
      [] effect = "glow" -> <<"gblur=sigma=10">>
      [] effect = "scanlines" -> <<"interlace">>
      [] OTHER -> <<>>

\* the switch of buildGlobalEffectsFilter
globalEffectFilter(effect) ==
    IF effect = "color-grading"
    THEN <<"eq=contrast=1.1:brightness=0.05:saturation=1.2">>
    ELSE IF effect = "film-grain" THEN <<"noise=c0s=15:allf=t">>
    ELSE IF effect = "vignette" THEN <<"vignette=angle=PI/3">>
    ELSE <<>>

\* effects.forEach(effect => filter += ...) : the comma-separated chain
RECURSIVE sceneEffectChain(_)
sceneEffectChain(effects) ==
    IF effects = <<>> THEN <<>>
    ELSE sceneEffectFilter(Head(effects)) \o sceneEffectChain(Tail(effects))

RECURSIVE globalEffectChain(_)
globalEffectChain(effects) ==
    IF effects = <<>> THEN <<>>
    ELSE globalEffectFilter(Head(effects)) \o globalEffectChain(Tail(effects))

\* the chain in the order of the cases of the switch, each tag at most once
buildEffectsFilterInSwitchOrder(effects, sceneIndex) ==
    LET has(tag) == \E j \in 1..Len(effects) : effects[j] = tag
        add(tag) == IF has(tag) THEN sceneEffectFilter(tag) ELSE <<>>
    IN  Stage("effects",
              <<Label("v", sceneIndex, "_trimmed")>>,
              add("vignette") \o add("chromatic-aberration")
                  \o add("film-grain") \o add("blur") \o add("sharpen")
                  \o add("glow") \o add("scanlines"),
              <<>>, <<>>, <<>>,
              Label("v", sceneIndex, "_effects"))

buildEffectsFilter(effects, sceneIndex) ==
    Stage("effects",
          <<Label("v", sceneIndex, "_trimmed")>>,
          sceneEffectChain(effects),
          <<>>, <<>>, <<>>,
          Label("v", sceneIndex, "_effects"))

buildGlobalEffectsFilter(effects) ==
    Stage("globalEffects",
          <<Label("vout", -1, "")>>,
          globalEffectChain(effects),
          <<>>, <<>>, <<>>,
          Label("vfinal", -1, ""))

----------------------------------------------------------------------------
(* buildTransitionFilter *)

\* duration: number = 0.5
DefaultTransitionDuration == 5

\* transitionMap[transition] || transitionMap.fade : the xfade transition
transitionName(transition) ==
    CASE transition = "fade" -> "fade"
      [] transition = "wipe" -> "wipeleft"
      [] transition = "slide" -> "slideleft"
      [] transition = "zoom" -> "zoomin"
      [] transition = "spin" -> "circleopen"
      [] transition = "blur" -> "fadeblack"
      [] transition = "glitch" -> "pixelize"
      [] OTHER -> "fade"

\* offset=${duration}
transitionOffset(duration) == duration

\* [v<scene1>][v<scene2>]xfade=transition=..:duration=..:offset=..[v<scene2>_trans]
\* nums holds the duration and the offset
buildTransitionFilter(transition, scene1, scene2, duration) ==
    Stage("xfade",
          <<Label("v", scene1, ""), Label("v", scene2, "")>>,
          <<transitionName(transition)>>,
          <<duration, transitionOffset(duration)>>,
          <<>>, <<>>,
          Label("v", scene2, "_trans"))

----------------------------------------------------------------------------
(* generateFFmpegCommand *)

initialInputIndexCarriedOver(cfg) ==
    IF IsSome(cfg.musicInputIndex) THEN Get(cfg.musicInputIndex) + 1
    ELSE IF Len(cfg.scenes) > 0 /\ IsSome(cfg.scenes[1].backgroundInputIndex)
         THEN Len(cfg.scenes)
         ELSE 0

\* let inputIndex = 0
initialInputIndex(cfg) == 0

\* one iteration of the first loop, for scene n (1-based)
addBackgroundInput(st, n) ==
    [inputs |-> Append(st.inputs, st.scenes[n].backgroundVideoUrl),
     inputIndex |-> st.inputIndex + 1,
     scenes |-> [st.scenes EXCEPT ![n].backgroundInputIndex = Some(st.inputIndex)]]

\* first loop, from scene n on: one input and one index per scene background
RECURSIVE addBackgroundInputs(_, _)
addBackgroundInputs(st, n) ==
    IF n > Len(st.scenes) THEN st
    ELSE addBackgroundInputs(addBackgroundInput(st, n), n + 1)

hasVoiceoverAlways(scene) == TRUE

\* if (scene.voiceoverAudioUrl)
hasVoiceover(scene) == Truthy(scene.voiceoverAudioUrl)

voiceoverIndexStepStuck(st) == st.inputIndex

\* inputIndex++ of the voiceover loop: the counter after the assignment
voiceoverIndexStep(st) == st.inputIndex + 1

\* one iteration of the second loop, for scene n (1-based)
addVoiceoverInput(st, n) ==
    IF hasVoiceover(st.scenes[n])
    THEN [inputs |-> Append(st.inputs, st.scenes[n].voiceoverAudioUrl),
          inputIndex |-> voiceoverIndexStep(st),
          scenes |-> [st.scenes EXCEPT
                        ![n].voiceoverInputIndex = Some(st.inputIndex)]]
    ELSE st

\* second loop, from scene n on: one input and one index per scene that has
\* a voiceover
RECURSIVE addVoiceoverInputs(_, _)
addVoiceoverInputs(st, n) ==
    IF n > Len(st.scenes) THEN st
    ELSE addVoiceoverInputs(addVoiceoverInput(st, n), n + 1)

\* if (config.musicTrack)
hasMusic(cfg) == IsSome(cfg.musicTrack) /\ Truthy(Get(cfg.musicTrack))

\* the inputs, and the config with every index field written
assignInputs(cfg) ==
    LET start == [inputs |-> <<>>, inputIndex |-> initialInputIndex(cfg),
                  scenes |-> cfg.scenes]
        st == addVoiceoverInputs(addBackgroundInputs(start, 1), 1)
    IN  IF hasMusic(cfg)
        THEN [inputs |-> Append(st.inputs, Get(cfg.musicTrack)),
              config |-> [cfg EXCEPT !.scenes = st.scenes,
                                     !.musicInputIndex = Some(st.inputIndex)]]
        ELSE [inputs |-> st.inputs,
              config |-> [cfg EXCEPT !.scenes = st.scenes]]

\* the stages one iteration of the per-scene loop pushes (i is 0-based)
sceneStages(cfg, i) ==
    LET scene == cfg.scenes[i + 1]
        bgInput == InputLabel(Get(scene.backgroundInputIndex), ":v")
        scaleCrop == Stage("scale_crop", <<bgInput>>, <<"scale", "crop">>,
                           <<cfg.resolution.width, cfg.resolution.height>>,
                           <<>>, <<>>, Label("bg", i, ""))
        trim == Stage("trim", <<Label("bg", i, "")>>, <<"trim", "setpts">>,
                      <<scene.duration>>, <<>>, <<>>,
                      Label("bg", i, "_trimmed"))
        caption == IF IsSome(scene.captions)
                   THEN <<buildCaptionFilter(Get(scene.captions), i)>>
                   ELSE <<>>
        effects == IF Len(scene.effects) > 0
                   THEN <<buildEffectsFilter(scene.effects, i)>>
                   ELSE <<>>
        audio == IF IsSome(scene.voiceoverInputIndex)
                 THEN <<Stage("atrim",
                              <<InputLabel(Get(scene.voiceoverInputIndex), ":a")>>,
                              <<"atrim", "asetpts">>, <<scene.duration>>,
                              <<>>, <<>>, Label("audio", i, ""))>>
                 ELSE <<>>
    IN  <<scaleCrop, trim>> \o caption \o effects \o audio

RECURSIVE allSceneStages(_, _)
allSceneStages(cfg, n) ==
    IF n <= 0 THEN <<>>
    ELSE allSceneStages(cfg, n - 1) \o sceneStages(cfg, n - 1)

\* audioStreams: the [audio<i>] labels of the scenes that got an audio stage
RECURSIVE audioStreams(_, _)
audioStreams(cfg, n) ==
    IF n <= 0 THEN <<>>
    ELSE audioStreams(cfg, n - 1)
         \o (IF IsSome(cfg.scenes[n].voiceoverInputIndex)
             THEN <<Label("audio", n - 1, "")>> ELSE <<>>)

filterComplex(cfg) ==
    LET n == Len(cfg.scenes)
        audio == audioStreams(cfg, n)
        videoConcat == Stage("concat",
                             [k \in 1..n |-> Label("v", k - 1, "_final")],
                             <<"concat">>, <<n, 1, 0>>, <<>>, <<>>,
                             Label("vout", -1, ""))
        audioConcat == IF Len(audio) > 0
                       THEN <<Stage("concat", audio, <<"concat">>,
                                    <<Len(audio), 0, 1>>, <<>>, <<>>,
                                    Label("aout", -1, ""))>>
                       ELSE <<>>
        mix == IF hasMusic(cfg) /\ IsSome(cfg.musicInputIndex)
               THEN Stage("amix",
                          <<Label("aout", -1, ""),
                            InputLabel(Get(cfg.musicInputIndex), ":a")>>,
                          <<"amix">>, <<2, 1, cfg.musicVolume>>,
                          <<>>, <<Opt("duration", "first", 0)>>,
                          Label("afinal", -1, ""))
               ELSE Stage("acopy", <<Label("aout", -1, "")>>, <<"acopy">>,
                          <<>>, <<>>, <<>>, Label("afinal", -1, ""))
        global == IF Len(cfg.globalEffects) > 0
                  THEN <<buildGlobalEffectsFilter(cfg.globalEffects)>>
                  ELSE <<>>
    IN  allSceneStages(cfg, n) \o <<videoConcat>> \o audioConcat
        \o <<mix>> \o global

\* the returned command, and the config as the call leaves it
generateFFmpegCommand(cfg) ==
    LET assigned == assignInputs(cfg)
    IN  [command |-> [inputs |-> assigned.inputs,
                      filterComplex |-> filterComplex(assigned.config),
                      maps |-> <<Label("vout", -1, ""), Label("afinal", -1, "")>>,
                      options |-> <<"-c:v libx264", "-preset medium", "-crf 23",
                                    "-c:a aac", "-b:a 192k",
                                    "-movflags +faststart", "-pix_fmt yuv420p">>,
                      output |-> assigned.config.outputFormat],
         config |-> assigned.config]

----------------------------------------------------------------------------
(* The polling loops of composeVideo and generateAIVideo *)

\* const maxAttempts = 120 of composeVideo
maxAttempts == 120

\* const maxAttempts = 60 of generateAIVideo
maxAttemptsAIVideo == 60

\* setTimeout(resolve, 5000), in tenths of a second
PollInterval == 50

NoError == [message |-> "", detail |-> ""]

Error(message, detail) == [message |-> message, detail |-> detail]

\* the locals of a polling function before its loop; submitted: the job was
\* posted; polls, waited and statuses record the status requests issued, the
\* time slept and the statuses answered so far
NewLoop ==
    [submitted |-> FALSE, videoUrl |-> EmptyUrl, attempts |-> 0, polls |-> 0,
     waited |-> 0, statuses |-> {}, error |-> NoError]

\* return videoUrl: the locals of the loop are gone, the URL is the result
returned(loop) == [NewLoop EXCEPT !.submitted = loop.submitted,
                                  !.videoUrl = loop.videoUrl]

\* statusResponse.data
StatusResponse(status, videoUrl, error) ==
    [status |-> status, videoUrl |-> videoUrl, error |-> error]

\* what the status endpoint can answer for a job whose result is videoUrl:
\* not ready, ready with the URL, ready without a URL, failed
StatusResponses(videoUrl) ==
    {StatusResponse("pending", EmptyUrl, ""),
     StatusResponse("processing", EmptyUrl, ""),
     StatusResponse("completed", videoUrl, ""),
     StatusResponse("completed", EmptyUrl, ""),
     StatusResponse("failed", EmptyUrl, "backend error")}

isFailedNever(response) == FALSE

\* statusResponse.data.status === 'failed'
isFailed(response) == response.status = "failed"

loopContinuesOneMore(loop, max) == ~Truthy(loop.videoUrl) /\ loop.attempts <= max

\* while (!videoUrl && attempts < maxAttempts)
loopContinues(loop, max) == ~Truthy(loop.videoUrl) /\ loop.attempts < max

\* one iteration of the loop: the wait, the status request, the branch on
\* the status and attempts++ (which a throw skips)
pollIteration(loop, response, failure) ==
    LET polled == [loop EXCEPT !.waited = @ + PollInterval,
                               !.polls = @ + 1,
                               !.statuses = @ \cup {response.status}]
    IN  IF response.status = "completed"
        THEN [polled EXCEPT !.videoUrl = response.videoUrl, !.attempts = @ + 1]
        ELSE IF isFailed(response)
        THEN [polled EXCEPT !.error = failure]
        ELSE [polled EXCEPT !.attempts = @ + 1]

\* throw new Error(`Video composition failed: ${statusResponse.data.error}`)
compositionFailed(response) == Error("Video composition failed", response.error)

\* throw new Error('Video composition timeout')
compositionTimeout == Error("Video composition timeout", "")

\* throw new Error('Video generation failed')
generationFailed(response) == Error("Video generation failed", "")

\* throw new Error('Video generation timeout')
generationTimeout == Error("Video generation timeout", "")

----------------------------------------------------------------------------
(* Promise.all over the per-scene requests *)

\* voice, video: the state of the promise of each scene; voiceUrls,
\* videoUrls: the value each fulfilled promise resolved with, by scene;
\* order: the requests in the order they completed; aiVideo: the polling
\* loop of generateAIVideo, by scene
NoRequests ==
    [voice |-> <<>>, video |-> <<>>, voiceUrls |-> <<>>, videoUrls |-> <<>>,
     order |-> <<>>, aiVideo |-> <<>>]

\* scenes.map(async scene => ...) : one request per scene, all started
dispatched(ss) == [k \in 1..Len(ss) |-> "pending"]

unresolved(ss) == [k \in 1..Len(ss) |-> EmptyUrl]

promiseAllSettled(statuses) ==
    IF \A k \in 1..Len(statuses) : statuses[k] # "pending"
    THEN "fulfilled" ELSE "pending"

\* Promise.all: rejected as soon as one promise is rejected, fulfilled when
\* every promise is fulfilled
promiseAll(statuses) ==
    IF \E k \in 1..Len(statuses) : statuses[k] = "rejected" THEN "rejected"
    ELSE IF \A k \in 1..Len(statuses) : statuses[k] = "fulfilled"
    THEN "fulfilled" ELSE "pending"

\* the promise of scene k is fulfilled with url
fulfil(reqs, kind, urls, k, url) ==
    [reqs EXCEPT ![kind][k] = "fulfilled",
                 ![urls][k] = url,
                 !.order = Append(@, [kind |-> kind, scene |-> k])]

\* the promise of scene k is rejected
reject(reqs, kind, k) ==
    [reqs EXCEPT ![kind][k] = "rejected",
                 !.order = Append(@, [kind |-> kind, scene |-> k])]

----------------------------------------------------------------------------
(* Inputs *)

SceneTemplate(duration, captionStyle, effects) ==
    [duration |-> duration, captionStyle |-> captionStyle, effects |-> effects,
     backgroundType |-> "stock-footage"]

Template(sceneTemplates, captionStyle, music, transitions, globalEffects) ==
    [scenes |-> sceneTemplates, captionStyle |-> captionStyle, music |-> music,
     transitions |-> transitions, globalEffects |-> globalEffects]

MusicOff == [enabled |-> FALSE, defaultTrack |-> None]

MusicOn == [enabled |-> TRUE, defaultTrack |-> Some(Url("music", 7))]

\* every service answered with a URL
AllAnswered(n) ==
    [audio |-> [k \in 1..n |-> Url("audio", k - 1)],
     video |-> [k \in 1..n |-> Url("video", k - 1)]]

\* the voice service answered each scene with a URL or with nothing; the
\* background service answered every scene, or all but the first
AnswerChoices(n) ==
    [audio : {[k \in 1..n |-> IF k \in voiced THEN Url("audio", k - 1)
                              ELSE EmptyUrl] : voiced \in SUBSET (1..n)},
     video : {[k \in 1..n |-> IF k = missing THEN EmptyUrl
                              ELSE Url("video", k - 1)] : missing \in 0..1}]

\* a scene of a job: its scene template and the script part written for it
ScenePlan(duration, captionStyle, effects, text) ==
    [sceneTemplate |-> SceneTemplate(duration, captionStyle, effects),
     text |-> text]

SceneTemplatesOf(plans) == [k \in 1..Len(plans) |-> plans[k].sceneTemplate]

TextsOf(plans) == [k \in 1..Len(plans) |-> plans[k].text]

\* the script has one part per scene, lacks the last part, or has a part
\* more than there are scenes
ScriptChoices(plans) ==
    {TextsOf(plans), Append(TextsOf(plans), <<"a">>)}
    \cup (IF Len(plans) > 0 THEN {SubSeq(TextsOf(plans), 1, Len(plans) - 1)}
          ELSE {})

\* timeline jobs: durations, texts, script lengths and transition lists vary
TimelineScenePlans ==
    {ScenePlan(None, "modern", <<>>, <<>>),
     ScenePlan(None, "modern", <<>>, Words(6)),
     ScenePlan(None, "modern", <<>>, <<" ">> \o Words(6)),
     ScenePlan(Some(-20), "modern", <<>>, <<>>),
     ScenePlan(Some(0), "modern", <<>>, Words(6)),
     ScenePlan(Some(45), "modern", <<>>, <<>>)}

TimelineTransitions ==
    {<<>>, <<"fade">>, <<"cut", "fade">>, <<"fade", "wipe", "fade", "zoom">>}

\* script jobs: one scene whose duration comes from its text, or from an
\* explicit positive duration; the text has up to MaxWords words and may
\* start or end with a blank
ScriptTexts ==
    {Repeat(<<" ">>, lead) \o Words(n) \o Repeat(<<" ">>, trail) :
        lead \in 0..1, n \in 0..MaxWords, trail \in 0..1}

ScriptScenePlans ==
    {ScenePlan(d, "modern", <<>>, text) :
        d \in {None, Some(45)}, text \in ScriptTexts}

\* compile jobs: media, effects, captions, music and looks vary
CompileScenePlans ==
    {ScenePlan(Some(50), "modern", <<>>, <<"a", "'", "b">>),
     ScenePlan(None, "bold", <<"blur", "lens-flare", "sharpen">>, <<>>),
     ScenePlan(Some(80), "modern", <<"lens-flare">>, <<"a", "'", "b">>)}

Looks ==
    {[captionStyle |-> "modern", transitions |-> <<>>, globalEffects |-> <<>>],
     [captionStyle |-> "minimal", transitions |-> <<"fade">>,
      globalEffects |-> <<"color-grading", "sparkle", "vignette">>],
     [captionStyle |-> "does-not-exist", transitions |-> <<"cut", "wipe", "zoom">>,
      globalEffects |-> <<"film-grain">>]}

\* effect jobs: one scene whose effect list varies over two known tags and
\* an unknown one
EffectTags == {"blur", "sharpen", "lens-flare"}

EffectLists == {<<>>} \cup SeqsUpTo(EffectTags, MaxEffects)

\* caption jobs: one scene whose text varies over the characters the
\* caption stage and the command line give a meaning to, and an ordinary one
CaptionAlphabet == {"'", "\"", ":", "[", "]", "\\", "a"}

CaptionTexts == {<<>>} \cup SeqsUpTo(CaptionAlphabet, MaxText)

\* style jobs: every registered style id, no id, and unregistered ids
StyleNames == StyleIds \cup {"", "does-not-exist", "constructor", "__proto__"}

\* transition jobs: scenes of explicit duration, and the durations a caller
\* of buildTransitionFilter passes (the default, or 1 s)
TransitionScenePlans ==
    {ScenePlan(Some(10), "modern", <<>>, <<>>),
     ScenePlan(Some(30), "modern", <<>>, <<>>),
     ScenePlan(Some(45), "modern", <<>>, <<>>)}

TransitionDurations == {DefaultTransitionDuration, 10}

\* pipeline jobs: up to MaxScenes scenes; the background of the first scene
\* is stock footage or AI-generated, the others are stock footage
PipelineSceneTemplates(n, firstType) ==
    [k \in 1..n |->
        [SceneTemplate(Some(30 + 10 * k), "modern", <<>>)
            EXCEPT !.backgroundType = IF k = 1 THEN firstType
                                      ELSE "stock-footage"]]

----------------------------------------------------------------------------
(* The job as a state machine *)

InitJob ==
    /\ pc = "start"
    /\ scenes = <<>>
    /\ videoParams = None
    /\ config = None
    /\ commands = <<>>
    /\ transitionStages = <<>>
    /\ requests = NoRequests
    /\ voiceoverResults = None
    /\ render = NewLoop
    /\ job = None
    /\ thrown = NoError

\* compile jobs
Init ==
    /\ \E plans \in SeqsUpTo(CompileScenePlans, MaxScenes) :
       \E look \in Looks, music \in {MusicOff, MusicOn} :
          /\ template = Template(SceneTemplatesOf(plans), look.captionStyle,
                                 music, look.transitions, look.globalEffects)
          /\ scriptParts = TextsOf(plans)
    /\ answers \in AnswerChoices(Len(template.scenes))
    /\ InitJob

\* timeline jobs
InitTimeline ==
    /\ \E plans \in SeqsUpTo(TimelineScenePlans, MaxScenes) :
          /\ \E transitions \in TimelineTransitions :
                template = Template(SceneTemplatesOf(plans), "modern", MusicOff,
                                    transitions, <<>>)
          /\ scriptParts \in ScriptChoices(plans)
    /\ answers = AllAnswered(Len(template.scenes))
    /\ InitJob

\* script jobs
InitScript ==
    /\ \E plan \in ScriptScenePlans :
          /\ template = Template(<<plan.sceneTemplate>>, "modern", MusicOff,
                                 <<>>, <<>>)
          /\ scriptParts = <<plan.text>>
    /\ answers = AllAnswered(1)
    /\ InitJob

\* effect jobs
InitEffects ==
    /\ \E effects \in EffectLists :
          template = Template(<<SceneTemplate(Some(50), "modern", effects)>>,
                              "modern", MusicOff, <<>>, <<>>)
    /\ scriptParts = <<<<"a">>>>
    /\ answers = AllAnswered(1)
    /\ InitJob

\* caption jobs
InitCaption ==
    /\ template = Template(<<SceneTemplate(Some(50), "modern", <<>>)>>,
                           "modern", MusicOff, <<>>, <<>>)
    /\ \E text \in CaptionTexts : scriptParts = <<text>>
    /\ answers = AllAnswered(1)
    /\ InitJob

\* style jobs
InitStyle ==
    /\ \E styleName \in StyleNames, music \in {MusicOff, MusicOn} :
          template = Template(<<SceneTemplate(Some(50), "modern", <<>>)>>,
                              styleName, music, <<>>, <<>>)
    /\ scriptParts = <<<<"a">>>>
    /\ answers = AllAnswered(1)
    /\ InitJob

\* transition jobs
InitTransition ==
    /\ \E plans \in SeqsUpTo(TransitionScenePlans, MaxScenes) :
          /\ \E transitions \in TimelineTransitions :
                template = Template(SceneTemplatesOf(plans), "modern", MusicOff,
                                    transitions, <<>>)
          /\ scriptParts = TextsOf(plans)
    /\ answers = AllAnswered(Len(template.scenes))
    /\ InitJob

\* pipeline jobs
InitPipeline ==
    /\ \E n \in 1..MaxScenes, firstType \in {"stock-footage", "ai-generated"} :
          /\ template = Template(PipelineSceneTemplates(n, firstType), "modern",
                                 MusicOff, <<>>, <<>>)
          /\ scriptParts = [k \in 1..n |-> <<"a">>]
    /\ answers = AllAnswered(Len(template.scenes))
    /\ InitJob

\* processTemplate, step 2
GenerateScenes ==
    /\ pc = "start"
    /\ scenes' = generateScenes(template, scriptParts)
    /\ pc' = "scenes"
    /\ UNCHANGED <<template, scriptParts, answers, videoParams, config, commands,
                   transitionStages>>
    /\ UNCHANGED pipelineVars

\* processTemplate, steps 3 to 5 up to the submission of the composition:
\* the voiceovers and backgrounds are joined in scene order and composeVideo
\* builds the CompositionConfig.  The engine always enables captions; the
\* exported composeVideo also accepts parameters with captions disabled.
ComposeVideo ==
    /\ pc = "scenes"
    /\ \E captionsEnabled \in BOOLEAN :
          videoParams' = Some(composeParams(template, scenes,
                                       synthesizeVoiceovers(scenes, answers.audio),
                                       generateBackgrounds(scenes, answers.video),
                                       captionsEnabled))
    /\ config' = Some(buildCompositionConfig(Get(videoParams')))
    /\ pc' = "composed"
    /\ UNCHANGED <<template, scriptParts, answers, scenes, commands,
                   transitionStages>>
    /\ UNCHANGED pipelineVars

\* a call of generateFFmpegCommand on the CompositionConfig object: it
\* returns the command and leaves the index fields it wrote in the object
GenerateFFmpegCommand ==
    /\ pc = "composed"
    /\ Len(commands) < MaxCompiles
    /\ LET result == generateFFmpegCommand(Get(config))
       IN  /\ commands' = Append(commands, result.command)
           /\ config' = Some(result.config)
    /\ UNCHANGED <<template, scriptParts, answers, pc, scenes, videoParams,
                   transitionStages>>
    /\ UNCHANGED pipelineVars

\* a call of buildTransitionFilter for two adjacent scenes of the
\* composition, with the transition tag of the first of them, once per pair.
\* No function of the module calls buildTransitionFilter: the step is what a
\* caller of it does, and it is no step of a compile job.
BuildTransitionFilter ==
    /\ pc = "composed"
    /\ \E i \in 1..(Len(Get(config).scenes) - 1),
          duration \in TransitionDurations :
          /\ \A j \in 1..Len(transitionStages) :
                transitionStages[j].ins[1].i # i - 1
          /\ transitionStages' =
                Append(transitionStages,
                       buildTransitionFilter(Get(config).scenes[i].transition,
                                             i - 1, i, duration))
    /\ UNCHANGED <<template, scriptParts, answers, pc, scenes, videoParams,
                   config, commands>>
    /\ UNCHANGED pipelineVars

\* processTemplate, step 3: synthesizeVoiceovers starts one request per
\* scene and awaits Promise.all of them
DispatchVoiceovers ==
    /\ pc = "scenes"
    /\ requests' = [requests EXCEPT !.voice = dispatched(scenes),
                                    !.voiceUrls = unresolved(scenes)]
    /\ pc' = "voiceovers"
    /\ UNCHANGED <<template, scriptParts, answers, scenes, videoParams, config,
                   commands, transitionStages, voiceoverResults, render, job, thrown>>

\* a voiceover request completes, in any order: synthesizeVoice returns the
\* URL or throws; the first rejection rejects Promise.all and with it
\* processTemplate
SettleVoiceover ==
    /\ pc = "voiceovers"
    /\ \E k \in 1..Len(requests.voice), outcome \in {"fulfilled", "rejected"} :
          /\ requests.voice[k] = "pending"
          /\ requests' = IF outcome = "fulfilled"
                         THEN fulfil(requests, "voice", "voiceUrls", k,
                                     answers.audio[k])
                         ELSE reject(requests, "voice", k)
          /\ IF promiseAll(requests'.voice) = "rejected"
             THEN /\ pc' = "thrown"
                  /\ thrown' = Error("Voice synthesis failed", "")
             ELSE UNCHANGED <<pc, thrown>>
    /\ UNCHANGED <<template, scriptParts, answers, scenes, videoParams, config,
                   commands, transitionStages, voiceoverResults, render, job>>

\* Promise.all of the voiceovers resolved with the results in scene order;
\* processTemplate, step 4: generateBackgrounds starts one request per scene
\* (generateAIVideo posts its generation job first)
AwaitVoiceovers ==
    /\ pc = "voiceovers"
    /\ promiseAll(requests.voice) = "fulfilled"
    /\ voiceoverResults' = Some(synthesizeVoiceovers(scenes, requests.voiceUrls))
    /\ requests' = [requests EXCEPT
                      !.video = dispatched(scenes),
                      !.videoUrls = unresolved(scenes),
                      !.aiVideo = [k \in 1..Len(scenes) |->
                                     [NewLoop EXCEPT !.submitted =
                                        scenes[k].backgroundType = "ai-generated"]]]
    /\ pc' = "backgrounds"
    /\ UNCHANGED <<template, scriptParts, answers, scenes, videoParams, config,
                   commands, transitionStages, render, job, thrown>>

\* a background request that does not poll completes, in any order
SettleBackground ==
    /\ pc = "backgrounds"
    /\ \E k \in 1..Len(requests.video), outcome \in {"fulfilled", "rejected"} :
          /\ requests.video[k] = "pending"
          /\ scenes[k].backgroundType # "ai-generated"
          /\ requests' = IF outcome = "fulfilled"
                         THEN fulfil(requests, "video", "videoUrls", k,
                                     answers.video[k])
                         ELSE reject(requests, "video", k)
          /\ IF promiseAll(requests'.video) = "rejected"
             THEN /\ pc' = "thrown"
                  /\ thrown' = Error("Background generation failed", "")
             ELSE UNCHANGED <<pc, thrown>>
    /\ UNCHANGED <<template, scriptParts, answers, scenes, videoParams, config,
                   commands, transitionStages, voiceoverResults, render, job>>

\* generateAIVideo: one iteration of its polling loop
PollAIVideo ==
    /\ pc = "backgrounds"
    /\ \E k \in 1..Len(requests.video) :
          /\ requests.video[k] = "pending"
          /\ scenes[k].backgroundType = "ai-generated"
          /\ loopContinues(requests.aiVideo[k], maxAttemptsAIVideo)
          /\ \E response \in StatusResponses(answers.video[k]) :
                LET loop == pollIteration(requests.aiVideo[k], response,
                                          generationFailed(response))
                IN  /\ requests' = IF loop.error # NoError
                                   THEN reject([requests EXCEPT !.aiVideo[k] = loop],
                                               "video", k)
                                   ELSE [requests EXCEPT !.aiVideo[k] = loop]
                    /\ IF promiseAll(requests'.video) = "rejected"
                       THEN /\ pc' = "thrown"
                            /\ thrown' = loop.error
                       ELSE UNCHANGED <<pc, thrown>>
    /\ UNCHANGED <<template, scriptParts, answers, scenes, videoParams, config,
                   commands, transitionStages, voiceoverResults, render, job>>

\* generateAIVideo after its loop: the timeout error, or the return of the URL
FinishAIVideo ==
    /\ pc = "backgrounds"
    /\ \E k \in 1..Len(requests.video) :
          /\ requests.video[k] = "pending"
          /\ scenes[k].backgroundType = "ai-generated"
          /\ ~loopContinues(requests.aiVideo[k], maxAttemptsAIVideo)
          /\ requests' =
                IF ~Truthy(requests.aiVideo[k].videoUrl)
                THEN reject([requests EXCEPT !.aiVideo[k].error = generationTimeout],
                            "video", k)
                ELSE fulfil([requests EXCEPT !.aiVideo[k] =
                                                returned(requests.aiVideo[k])],
                            "video", "videoUrls", k, requests.aiVideo[k].videoUrl)
          /\ IF promiseAll(requests'.video) = "rejected"
             THEN /\ pc' = "thrown"
                  /\ thrown' = generationTimeout
             ELSE UNCHANGED <<pc, thrown>>
    /\ UNCHANGED <<template, scriptParts, answers, scenes, videoParams, config,
                   commands, transitionStages, voiceoverResults, render, job>>

\* Promise.all of the backgrounds resolved with the results in scene order;
\* processTemplate, step 5: TemplateEngine.composeVideo hands the parameters
\* to composeVideo, which posts the composition
SubmitComposition ==
    /\ pc = "backgrounds"
    /\ promiseAll(requests.video) = "fulfilled"
    /\ videoParams' = Some(composeParams(template, scenes, Get(voiceoverResults),
                                         generateBackgrounds(scenes,
                                                             requests.videoUrls),
                                         TRUE))
    /\ config' = Some(buildCompositionConfig(Get(videoParams')))
    /\ render' = [NewLoop EXCEPT !.submitted = TRUE]
    /\ pc' = "polling"
    /\ UNCHANGED <<template, scriptParts, answers, scenes, commands,
                   transitionStages, requests, voiceoverResults, job, thrown>>

\* composeVideo: one iteration of its polling loop
PollStatus ==
    /\ pc = "polling"
    /\ loopContinues(render, maxAttempts)
    /\ \E response \in StatusResponses(Url("render", 1)) :
          /\ render' = pollIteration(render, response, compositionFailed(response))
          /\ IF render'.error # NoError
             THEN /\ pc' = "thrown"
                  /\ thrown' = render'.error
             ELSE UNCHANGED <<pc, thrown>>
    /\ UNCHANGED <<template, scriptParts, answers, scenes, videoParams, config,
                   commands, transitionStages, requests, voiceoverResults, job>>

\* composeVideo after its loop: the timeout error, or the URL, with which
\* processTemplate returns the job
FinishComposeVideo ==
    /\ pc = "polling"
    /\ ~loopContinues(render, maxAttempts)
    /\ IF ~Truthy(render.videoUrl)
       THEN /\ render' = [render EXCEPT !.error = compositionTimeout]
            /\ pc' = "thrown"
            /\ thrown' = compositionTimeout
            /\ UNCHANGED job
       ELSE /\ job' = Some([status |-> "completed",
                            videoUrl |-> render.videoUrl,
                            duration |-> jobDuration(scenes)])
            /\ pc' = "returned"
            /\ UNCHANGED <<render, thrown>>
    /\ UNCHANGED <<template, scriptParts, answers, scenes, videoParams, config,
                   commands, transitionStages, requests, voiceoverResults>>

Next ==
    \/ GenerateScenes
    \/ ComposeVideo
    \/ GenerateFFmpegCommand

NextTransition ==
    \/ Next
    \/ BuildTransitionFilter

Spec == Init /\ [][Next]_vars

SpecTimeline == InitTimeline /\ [][Next]_vars

SpecScript == InitScript /\ [][Next]_vars

SpecEffects == InitEffects /\ [][Next]_vars

SpecCaption == InitCaption /\ [][Next]_vars

SpecStyle == InitStyle /\ [][Next]_vars

SpecTransition == InitTransition /\ [][NextTransition]_vars

NextPipeline ==
    \/ GenerateScenes
    \/ DispatchVoiceovers
    \/ SettleVoiceover
    \/ AwaitVoiceovers
    \/ SettleBackground
    \/ PollAIVideo
    \/ FinishAIVideo
    \/ SubmitComposition
    \/ PollStatus
    \/ FinishComposeVideo

SpecPipeline == InitPipeline /\ [][NextPipeline]_vars

----------------------------------------------------------------------------
(* Properties *)

Composed == IsSome(config)

Compiled == Len(commands) > 0

ExplicitDuration(k) == template.scenes[k].duration

\* number of maximal runs of non-whitespace in a text: its words
WordCount(text) ==
    Cardinality({i \in 1..Len(text) :
                    ~IsSpace(text[i]) /\ (i = 1 \/ IsSpace(text[i - 1]))})

\* max(3.0, words/2.5 + 0.5) over the words of the text, in tenths of a second
DurationOfWords(text) == Max(4 * WordCount(text) + 5, 30)

\* C1: buildCompositionConfig starts scene 0 at 0, starts scene i at the sum
\* of the durations of scenes 0..i-1 and ends it at startTime + duration, so
\* the last endTime is the job duration processTemplate reports; the
\* transition list changes no startTime and not the total.
TimelineIsPrefixSum ==
    Composed =>
        LET cs == Get(config).scenes
            n == Len(cs)
            plain == buildCompositionConfig(
                         [Get(videoParams) EXCEPT !.transitions = <<>>]).scenes
        IN  /\ n = Len(scenes)
            /\ \A k \in 1..n :
                  /\ cs[k].duration = scenes[k].duration
                  /\ cs[k].startTime = SumDurations(scenes, k - 1)
                  /\ cs[k].endTime = cs[k].startTime + scenes[k].duration
                  /\ cs[k].startTime = plain[k].startTime
                  /\ cs[k].endTime = plain[k].endTime
            /\ n > 0 => cs[1].startTime = 0 /\ cs[n].endTime = jobDuration(scenes)

\* a composition of several scenes whose first scene carries a real transition
TimelineWithTransition ==
    /\ Composed
    /\ Len(Get(config).scenes) >= 2
    /\ Get(config).scenes[1].transition = "fade"
    /\ Get(config).scenes[2].startTime > 0
    /\ Get(config).scenes[2].duration # Get(config).scenes[1].duration

\* C2: every composition produced from a template has strictly increasing,
\* contiguous scene times: startTime < endTime for every scene and the
\* endTime of a scene is the startTime of the next, whatever explicit
\* durations the scene templates carry.
TimelineContiguous ==
    Composed =>
        LET cs == Get(config).scenes
        IN  /\ \A k \in 1..Len(cs) : cs[k].startTime < cs[k].endTime
            /\ \A k \in 1..(Len(cs) - 1) :
                  /\ cs[k].endTime = cs[k + 1].startTime
                  /\ cs[k].startTime < cs[k + 1].startTime

\* C3: generateScenes keeps an explicit duration > 0 unchanged and otherwise
\* gives max(3.0, words/2.5 + 0.5), words being the number of words of the
\* scene text (0 for empty or blank text, leading and trailing whitespace
\* not counted); a text-derived duration is never below 3.0 s.
DurationFromTemplateOrWords ==
    pc # "start" =>
        \A k \in 1..Len(scenes) :
            LET d == ExplicitDuration(k)
            IN  IF IsSome(d) /\ Get(d) > 0
                THEN scenes[k].duration = Get(d)
                ELSE /\ scenes[k].duration = DurationOfWords(scenes[k].text)
                     /\ scenes[k].duration >= 30

\* C4: a scene template with an explicit duration <= 0 makes timeline
\* building fail with InvalidDuration: no scene list and no composition is
\* produced from it, and no composition has a scene of non-positive duration.
InvalidDurationRejected ==
    /\ (\E k \in 1..Len(template.scenes) :
           IsSome(ExplicitDuration(k)) /\ Get(ExplicitDuration(k)) <= 0)
       => (pc = "start" /\ ~Composed)
    /\ Composed => \A k \in 1..Len(Get(config).scenes) :
                      Get(config).scenes[k].duration > 0

\* C5: if the number of resolved texts, backgrounds or voiceovers differs
\* from the number of scenes, building the composition fails with
\* ShapeMismatch before any scene configuration or stage text is produced.
ShapeMismatchRejected ==
    LET n == Len(template.scenes)
        mismatch == \/ Len(scriptParts) # n
                    \/ Len(answers.audio) # n
                    \/ Len(answers.video) # n
    IN  mismatch => (~Composed /\ ~Compiled)

\* C6: if a scene of the CompositionConfig has an empty background
\* reference, generateFFmpegCommand fails with MissingMedia before any input
\* argument or stage text is produced; no returned command contains an empty
\* input reference.
MissingMediaRejected ==
    /\ (Composed /\ \E k \in 1..Len(Get(config).scenes) :
                       ~Truthy(Get(config).scenes[k].backgroundVideoUrl))
       => ~Compiled
    /\ \A c \in 1..Len(commands) :
          \A j \in 1..Len(commands[c].inputs) : Truthy(commands[c].inputs[j])

Voiced(cs) == {k \in 1..Len(cs) : Truthy(cs[k].voiceoverAudioUrl)}

VoicedBefore(cs, k) == Cardinality({j \in Voiced(cs) : j < k})

\* C7: generateFFmpegCommand assigns the indices 0,1,2,... without gaps or
\* repeats: one per scene background in scene order, then one per scene with
\* a voiceover in scene order, then one for the music track if present; the
\* k-th '-i' argument is the media whose index is k; every call starts at 0.
InputIndicesDense ==
    Compiled =>
        LET cfg == Get(config)
            cs == cfg.scenes
            n == Len(cs)
            v == Cardinality(Voiced(cs))
            m == IF hasMusic(cfg) THEN 1 ELSE 0
        IN  \A c \in 1..Len(commands) :
               LET inputs == commands[c].inputs
               IN  /\ Len(inputs) = n + v + m
                   /\ \A k \in 1..n :
                         /\ cs[k].backgroundInputIndex = Some(k - 1)
                         /\ inputs[k] = cs[k].backgroundVideoUrl
                   /\ \A k \in Voiced(cs) :
                         /\ cs[k].voiceoverInputIndex
                               = Some(n + VoicedBefore(cs, k))
                         /\ inputs[n + VoicedBefore(cs, k) + 1]
                               = cs[k].voiceoverAudioUrl
                   /\ m = 1 =>
                         /\ cfg.musicInputIndex = Some(n + v)
                         /\ inputs[n + v + 1] = Get(cfg.musicTrack)

\* compiled twice: a silent scene before a scene with voiceover, and music
IndicesAssignedTwice ==
    /\ Len(commands) >= 2
    /\ Len(Get(config).scenes) >= 2
    /\ 1 \notin Voiced(Get(config).scenes)
    /\ 2 \in Voiced(Get(config).scenes)
    /\ hasMusic(Get(config))

StageLabels(stage) == {stage.ins[j] : j \in 1..Len(stage.ins)} \cup {stage.out}

\* the ":a" input indices the stages of a command read
AudioInputsRead(command) ==
    {l.i : l \in {x \in UNION {StageLabels(command.filterComplex[j]) :
                                  j \in 1..Len(command.filterComplex)} :
                     x.name = "input" /\ x.suffix = ":a"}}

\* C8: a scene whose voiceover reference is empty gets no voiceover input
\* index, and no input argument and no filter stage of the compiled command
\* references an audio input for that scene.
SilentSceneHasNoAudioInput ==
    Compiled =>
        LET cfg == Get(config)
            cs == cfg.scenes
            n == Len(cs)
            owned == {Get(cs[k].voiceoverInputIndex) : k \in Voiced(cs)}
                     \cup (IF hasMusic(cfg) THEN {Get(cfg.musicInputIndex)}
                           ELSE {})
        IN  \A c \in 1..Len(commands) :
               /\ AudioInputsRead(commands[c]) \subseteq owned
               /\ Len(commands[c].inputs) = n + Cardinality(owned)
               /\ \A k \in (1..n) \ Voiced(cs) :
                     /\ cs[k].voiceoverInputIndex = None
                     /\ \A j \in 1..Len(commands[c].filterComplex) :
                           Label("audio", k - 1, "")
                               \notin StageLabels(commands[c].filterComplex[j])

\* compiled: a silent scene next to a scene with voiceover
SilentSceneCompiled ==
    /\ Compiled
    /\ Voiced(Get(config).scenes) # {}
    /\ (1..Len(Get(config).scenes)) \ Voiced(Get(config).scenes) # {}

\* C9: generateFFmpegCommand does not modify the CompositionConfig it is
\* given: every field of the config and of its scenes, the input-index
\* fields included, has after the call the value it had before.
CompileLeavesConfigUnchanged == [][GenerateFFmpegCommand => config' = config]_vars

\* C10: compiling the same CompositionConfig twice (the same object again,
\* or an equal copy of it) yields identical command and stage output.
CompileDeterministic ==
    Compiled =>
        LET copy == buildCompositionConfig(Get(videoParams))
        IN  \A c \in 1..Len(commands) :
               /\ commands[c] = commands[1]
               /\ commands[c] = generateFFmpegCommand(copy).command

\* the same object compiled a second time, after the first call wrote its
\* index fields
CompiledTwice ==
    /\ Len(commands) >= 2
    /\ Voiced(Get(config).scenes) # {}
    /\ IsSome(Get(config).musicInputIndex)
    /\ Get(config) # buildCompositionConfig(Get(videoParams))

FilterGraph(c) == commands[c].filterComplex

\* "[k:v]" or "[k:a]" with k the index of one of the '-i' arguments
AssignedInput(c, label) ==
    /\ label.name = "input"
    /\ label.i \in 0..(Len(commands[c].inputs) - 1)

\* the stages before position j of command c that write the label
Producers(c, label, j) ==
    {m \in 1..(j - 1) : m <= Len(FilterGraph(c)) /\ FilterGraph(c)[m].out = label}

Available(c, label, j) ==
    \/ AssignedInput(c, label)
    \/ Cardinality(Producers(c, label, j)) = 1

\* C11: every stream label a stage of the compiled filter graph consumes,
\* and every label a final '-map' names, is an input-stream reference with an
\* assigned index or the output label of exactly one earlier stage, for every
\* combination of effects, captions, voiceovers, music and global effects.
EveryStreamIsProduced ==
    \A c \in 1..Len(commands) :
       /\ \A j \in 1..Len(FilterGraph(c)) :
             \A m \in 1..Len(FilterGraph(c)[j].ins) :
                Available(c, FilterGraph(c)[j].ins[m], j)
       /\ \A m \in 1..Len(commands[c].maps) :
             Available(c, commands[c].maps[m], Len(FilterGraph(c)) + 1)

\* the per-scene video stages of scene k (1-based) in command c
SceneVideoStages(c, k) ==
    {j \in 1..Len(FilterGraph(c)) :
        /\ FilterGraph(c)[j].op \in {"scale_crop", "trim", "drawtext", "effects"}
        /\ FilterGraph(c)[j].out.i = k - 1}

\* C12: for N scenes the video concatenation stage enumerates exactly N
\* video streams (n=N), one per scene in scene order, and each of them is the
\* final video stream the per-scene stages of that scene produce.
ConcatReadsSceneFinals ==
    Compiled =>
        LET n == Len(Get(config).scenes)
        IN  \A c \in 1..Len(commands) :
               \E v \in 1..Len(FilterGraph(c)) :
                  LET concat == FilterGraph(c)[v]
                  IN  /\ concat.op = "concat"
                      /\ concat.out = Label("vout", -1, "")
                      /\ concat.nums = <<n, 1, 0>>
                      /\ Len(concat.ins) = n
                      /\ \A k \in 1..n :
                            \E j \in SceneVideoStages(c, k) :
                               /\ j < v
                               /\ FilterGraph(c)[j].out = concat.ins[k]
                               /\ \A m \in SceneVideoStages(c, k) : m <= j

\* C13: the audio concatenation has one segment per scene in scene order: the
\* voiceover trimmed to the scene's duration for a scene that has one,
\* silence of the scene's duration for a scene that has none; so the audio is
\* as long as the video, and a final audio stream exists even when no scene
\* has a voiceover.
AudioSegmentPerScene ==
    Compiled =>
        LET cs == Get(config).scenes
            n == Len(cs)
        IN  \A c \in 1..Len(commands) :
               /\ Cardinality(Producers(c, Label("afinal", -1, ""),
                                        Len(FilterGraph(c)) + 1)) = 1
               /\ \E a \in 1..Len(FilterGraph(c)) :
                     LET concat == FilterGraph(c)[a]
                     IN  /\ concat.op = "concat"
                         /\ concat.out = Label("aout", -1, "")
                         /\ concat.nums = <<n, 0, 1>>
                         /\ Len(concat.ins) = n
                         /\ \A k \in 1..n :
                               \E m \in 1..(a - 1) :
                                  LET segment == FilterGraph(c)[m]
                                  IN  /\ segment.out = concat.ins[k]
                                      /\ segment.nums = <<cs[k].duration>>
                                      /\ IF k \in Voiced(cs)
                                         THEN segment.ins =
                                                <<InputLabel(
                                                    Get(cs[k].voiceoverInputIndex),
                                                    ":a")>>
                                         ELSE segment.ins = <<>>

\* the tags the switch of buildEffectsFilter has a case for
KnownEffects ==
    {"vignette", "chromatic-aberration", "film-grain", "blur", "sharpen",
     "glow", "scanlines"}

KnownOf(effects) == SelectSeq(effects, LAMBDA tag : tag \in KnownEffects)

\* the effect list of the first scene, as composed
SceneEffects == Get(config).scenes[1].effects

\* the same job with another effect list on its first scene, compiled
CompiledWithEffects(effects) ==
    generateFFmpegCommand(
        buildCompositionConfig(
            [Get(videoParams) EXCEPT !.scenes[1].effects = effects])).command

\* the effect lists with the tags of the list in any order
Reordered(effects) ==
    {[k \in 1..Len(effects) |-> effects[order[k]]] :
        order \in Permutations(1..Len(effects))}

\* the effects stages of command c
EffectStages(c) ==
    {j \in 1..Len(FilterGraph(c)) : FilterGraph(c)[j].op = "effects"}

\* C14: the effect chain of a scene applies the scene's known effect tags
\* strictly in list order, so two effect lists with the same known tags in a
\* different order compile to different stage output.
EffectsInListOrder ==
    Compiled =>
        LET known == KnownOf(SceneEffects)
        IN  \A c \in 1..Len(commands) :
               /\ \A j \in EffectStages(c) :
                     /\ Len(FilterGraph(c)[j].chain) = Len(known)
                     /\ \A k \in 1..Len(known) :
                           <<FilterGraph(c)[j].chain[k]>>
                               = sceneEffectFilter(known[k])
               /\ \A other \in Reordered(SceneEffects) :
                     KnownOf(other) # known
                         => CompiledWithEffects(other) # commands[c]

\* compiled: a scene with blur before sharpen
BlurBeforeSharpenCompiled ==
    /\ Compiled
    /\ KnownOf(SceneEffects) = <<"blur", "sharpen">>
    /\ EffectStages(1) # {}

\* C15: unknown effect tags are silently skipped: for every scene effect
\* list the compiled filter graph is the one compiled from the same list with
\* the unknown tags removed; a list of unknown tags only compiles like an
\* empty effect list.
UnknownEffectsSkipped ==
    Compiled =>
        \A c \in 1..Len(commands) :
           commands[c] = CompiledWithEffects(KnownOf(SceneEffects))

\* the caption stages of command c
CaptionStages(c) ==
    {j \in 1..Len(FilterGraph(c)) : FilterGraph(c)[j].op = "drawtext"}

\* the caption text of the first scene, as composed
CaptionText == Get(Get(config).scenes[1].captions).text

EscapedChars == {"'", ":", "[", "]"}

\* how many of the first k characters of the text get a backslash
EscapedUpTo(text, k) ==
    Cardinality({i \in 1..k : text[i] \in EscapedChars})

\* C16: in the caption stage every occurrence of ' : [ ] of the caption text
\* is emitted as a backslash followed by that character, and every other
\* character is emitted unchanged, all in their original order.
CaptionTextEscaped ==
    (Compiled /\ IsSome(Get(config).scenes[1].captions)) =>
        \A c \in 1..Len(commands) :
           /\ CaptionStages(c) # {}
           /\ \A j \in CaptionStages(c) :
                 LET emitted == FilterGraph(c)[j].text
                     n == Len(CaptionText)
                 IN  /\ Len(emitted) = n + EscapedUpTo(CaptionText, n)
                     /\ \A k \in 1..n :
                           LET at == k + EscapedUpTo(CaptionText, k)
                           IN  /\ emitted[at] = CaptionText[k]
                               /\ CaptionText[k] \in EscapedChars
                                     => emitted[at - 1] = "\\"

\* compiled: a caption with the same escaped character twice and another
\* character after it
RepeatedQuoteCompiled ==
    /\ Compiled
    /\ IsSome(Get(config).scenes[1].captions)
    /\ CaptionText = <<"'", "'", "a">>
    /\ CaptionStages(1) # {}

\* reading s left to right with a backslash quoting the next character:
\* position p holds a quoted character
RECURSIVE Quoted(_, _)
Quoted(s, p) == p > 1 /\ s[p - 1] = "\\" /\ ~Quoted(s, p - 1)

\* what that reading recovers: the characters that are not a quoting backslash
RECURSIVE ReadFrom(_, _)
ReadFrom(s, p) ==
    IF p > Len(s) THEN <<>>
    ELSE (IF s[p] = "\\" /\ ~Quoted(s, p) THEN <<>> ELSE <<s[p]>>)
         \o ReadFrom(s, p + 1)

\* C17: no caption text can corrupt the stage expression: for every text
\* over single and double quotes, colon, brackets, backslash and ordinary
\* characters, reading the emitted payload left to right with backslash
\* quoting the next character recovers exactly the text, and the payload ends
\* only at its closing delimiter: no quote inside it is unquoted, neither the
\* ' of text='...' nor the " of the -filter_complex argument.
CaptionTextRoundTrips ==
    (Compiled /\ IsSome(Get(config).scenes[1].captions)) =>
        \A c \in 1..Len(commands) :
           \A j \in CaptionStages(c) :
              LET payload == FilterGraph(c)[j].text \o <<"'">>
              IN  /\ ReadFrom(FilterGraph(c)[j].text, 1) = CaptionText
                  /\ \A p \in 1..Len(payload) :
                        (payload[p] = "'" /\ ~Quoted(payload, p))
                            <=> p = Len(payload)
                  /\ \A p \in 1..Len(payload) :
                        payload[p] = "\"" => Quoted(payload, p)

\* the same job with another caption style id, compiled
CompiledWithStyle(styleName) ==
    generateFFmpegCommand(
        buildCompositionConfig(
            [Get(videoParams) EXCEPT !.captions.style = styleName])).command

\* C18: getCaptionStyle returns the 'modern' style record for every style id
\* that is not a registered one, so a composition built with an unknown
\* caption style id compiles to the same stage output as one built with
\* 'modern'.
UnknownStyleIsModern ==
    (Composed /\ Get(videoParams).captions.style \notin StyleIds) =>
        /\ getCaptionStyle(Get(videoParams).captions.style)
              = CaptionStyles["modern"]
        /\ \A c \in 1..Len(commands) : commands[c] = CompiledWithStyle("modern")

\* the transition stages of command c that blend scenes k and k + 1 (1-based)
TransitionStagesOf(c, k) ==
    {j \in 1..Len(FilterGraph(c)) :
        /\ FilterGraph(c)[j].op = "xfade"
        /\ FilterGraph(c)[j].ins = <<Label("v", k - 1, ""), Label("v", k, "")>>}

\* C19: the compiled filter graph contains a transition stage for the scene
\* pair (i, i+1) exactly when scene i is not the last scene and carries a
\* transition other than 'cut'; the tag on the last scene produces no stage.
TransitionStageIffTagged ==
    Compiled =>
        LET cs == Get(config).scenes
        IN  \A c \in 1..Len(commands) :
               \A k \in 1..Len(cs) :
                  TransitionStagesOf(c, k) # {}
                      <=> (k < Len(cs) /\ cs[k].transition # "cut")

\* C20: a transition stage between two adjacent scenes is anchored at the
\* offset (duration of the preceding scene) - (the transition's own
\* duration), 0.5 s by default.
TransitionOffsetBeforeBoundary ==
    \A j \in 1..Len(transitionStages) :
       LET stage == transitionStages[j]
           preceding == Get(config).scenes[stage.ins[1].i + 1]
       IN  stage.nums[2] = preceding.duration - stage.nums[1]

\* the tags the switch of buildGlobalEffectsFilter has a case for
KnownGlobalEffects == {"color-grading", "film-grain", "vignette"}

KnownGlobalOf(effects) ==
    SelectSeq(effects, LAMBDA tag : tag \in KnownGlobalEffects)

GlobalEffectStages(c) ==
    {j \in 1..Len(FilterGraph(c)) : FilterGraph(c)[j].op = "globalEffects"}

\* C21: when globalEffects is non-empty exactly one global-effects stage is
\* emitted; it consumes the concatenated video stream and no scene stream,
\* applies the known global tags in listed order, and its output is the
\* video stream the final command maps to the output file.
GlobalEffectsStageIsMapped ==
    (Compiled /\ Len(Get(config).globalEffects) > 0) =>
        LET known == KnownGlobalOf(Get(config).globalEffects)
        IN  \A c \in 1..Len(commands) :
               /\ Cardinality(GlobalEffectStages(c)) = 1
               /\ \A j \in GlobalEffectStages(c) :
                     LET stage == FilterGraph(c)[j]
                     IN  /\ stage.ins = <<Label("vout", -1, "")>>
                         /\ \E v \in 1..(j - 1) :
                               /\ FilterGraph(c)[v].op = "concat"
                               /\ FilterGraph(c)[v].out = Label("vout", -1, "")
                         /\ Len(stage.chain) = Len(known)
                         /\ \A k \in 1..Len(known) :
                               <<stage.chain[k]>> = globalEffectFilter(known[k])
                         /\ commands[c].maps[1] = stage.out

\* the stages of command c with the given operation
StagesWithOp(c, op) ==
    {j \in 1..Len(FilterGraph(c)) : FilterGraph(c)[j].op = op}

\* positions of the '-i' arguments of command c that are a music track
MusicInputs(c) ==
    {i \in 1..Len(commands[c].inputs) : commands[c].inputs[i].kind = "music"}

\* the concatenated voice track of command c: the output of the audio
\* concatenation stage, emitted before position j
VoiceTrackBefore(c, j) ==
    \E a \in 1..(j - 1) :
       /\ FilterGraph(c)[a].op = "concat"
       /\ FilterGraph(c)[a].out = Label("aout", -1, "")

\* C22: a music input and a mix stage are present exactly when music is
\* enabled; the mix stage combines the concatenated voice track at weight 1
\* with the music track at weight musicVolume and takes its duration from
\* the voice track; with music disabled the final audio is the concatenated
\* voice track alone.
MusicMixedWhenEnabled ==
    Compiled =>
        LET music == Get(videoParams).music
        IN  \A c \in 1..Len(commands) :
               /\ music.enabled <=> MusicInputs(c) # {}
               /\ music.enabled <=> StagesWithOp(c, "amix") # {}
               /\ \A j \in StagesWithOp(c, "amix") :
                     LET mix == FilterGraph(c)[j]
                     IN  /\ \E i \in MusicInputs(c) :
                               mix.ins = <<Label("aout", -1, ""),
                                           InputLabel(i - 1, ":a")>>
                         /\ VoiceTrackBefore(c, j)
                         /\ mix.nums = <<2, 1, music.volume>>
                         /\ mix.opts = <<Opt("duration", "first", 0)>>
                         /\ mix.out = Label("afinal", -1, "")
               /\ ~music.enabled =>
                     \E j \in StagesWithOp(c, "acopy") :
                        /\ FilterGraph(c)[j].ins = <<Label("aout", -1, "")>>
                        /\ VoiceTrackBefore(c, j)
                        /\ FilterGraph(c)[j].out = Label("afinal", -1, "")

\* C23: in composeVideo a 'failed' status is terminal: as soon as a status
\* poll returns 'failed', composeVideo raises the failure error carrying the
\* backend error, issues no further status poll and never returns a video
\* URL for the job.
FailedIsTerminal ==
    /\ []("failed" \in render.statuses =>
             /\ pc = "thrown"
             /\ thrown = Error("Video composition failed", "backend error")
             /\ job = None)
    /\ [][("failed" \in render.statuses) => render'.polls = render.polls]_vars

\* the render job failed after it had been polled before
FailedAfterPending ==
    /\ "failed" \in render.statuses
    /\ "pending" \in render.statuses
    /\ render.polls >= 3
    /\ thrown # NoError

\* C24: polling is bounded and a timeout is never success: composeVideo
\* issues at most 120 status polls and generateAIVideo at most 60, each after
\* a 5-second wait; if none returned 'completed' or 'failed' the function
\* raises a timeout error that differs from the failure error, and
\* processTemplate then reports no job as 'completed'.
PollingIsBounded ==
    /\ render.polls <= 120
    /\ render.waited = 50 * render.polls
    /\ \A k \in 1..Len(requests.aiVideo) :
          /\ requests.aiVideo[k].polls <= 60
          /\ requests.aiVideo[k].waited = 50 * requests.aiVideo[k].polls
          /\ (/\ requests.video[k] # "pending"
              /\ requests.aiVideo[k].polls > 0
              /\ requests.aiVideo[k].statuses \cap {"completed", "failed"} = {})
             => /\ requests.aiVideo[k].polls = 60
                /\ thrown = Error("Video generation timeout", "")
    /\ (/\ pc \in {"thrown", "returned"}
        /\ render.submitted
        /\ render.statuses \cap {"completed", "failed"} = {})
       => /\ render.polls = 120
          /\ thrown = Error("Video composition timeout", "")
    /\ thrown # NoError => (job = None /\ pc = "thrown")
    /\ thrown.message \in {"Video composition timeout", "Video generation timeout"}
          => /\ "failed" \notin render.statuses
             /\ \A k \in 1..Len(requests.aiVideo) :
                   "failed" \notin requests.aiVideo[k].statuses

\* composeVideo timed out after 120 polls, none of them 'completed' or 'failed'
ComposeTimedOut ==
    /\ thrown = Error("Video composition timeout", "")
    /\ render.polls = 120
    /\ render.statuses \cap {"completed", "failed"} = {}
    /\ job = None

\* C30: in composeVideo a 'completed' status is terminal: once a status poll
\* returns 'completed', composeVideo issues no further status poll and
\* returns the video URL of that response; a job that reported 'completed'
\* never ends in a timeout error.
CompletedIsTerminal ==
    /\ [](thrown = Error("Video composition timeout", "")
             => "completed" \notin render.statuses)
    /\ [](IsSome(job) => Get(job).videoUrl = Url("render", 1))
    /\ [][("completed" \in render.statuses) => render'.polls = render.polls]_vars

\* position of the completion of the request of a scene in completion order
CompletedAt(kind, k) ==
    CHOOSE j \in 1..Len(requests.order) :
        requests.order[j] = [kind |-> kind, scene |-> k]

\* C25: whatever order the concurrently dispatched per-scene voiceover and
\* background requests complete in, the composition pairs every scene with
\* the voiceover URL and the background URL produced for that same scene,
\* and the scenes stay in template order.
ScenesPairedWithOwnMedia ==
    (Composed /\ render.submitted) =>
        LET cs == Get(config).scenes
        IN  /\ Len(cs) = Len(template.scenes)
            /\ \A k \in 1..Len(cs) :
                  /\ cs[k].voiceoverAudioUrl = answers.audio[k]
                  /\ cs[k].backgroundVideoUrl = answers.video[k]
                  /\ cs[k].duration = Get(template.scenes[k].duration)
                  /\ Get(videoParams).scenes[k].id = k - 1

\* composed after the requests of the second scene completed before those
\* of the first
ComposedOutOfOrder ==
    /\ Composed
    /\ render.submitted
    /\ Len(Get(config).scenes) >= 2
    /\ CompletedAt("voice", 2) < CompletedAt("voice", 1)
    /\ CompletedAt("video", 2) < CompletedAt("video", 1)

Rejected(statuses) == {k \in 1..Len(statuses) : statuses[k] = "rejected"}

\* C26: processTemplate submits the render job only after every per-scene
\* voiceover request and every per-scene background request has completed
\* successfully; if any of them fails, no render job is submitted and
\* processTemplate fails instead of returning a job with status 'completed'.
SubmitsOnlyAfterJoin ==
    /\ render.submitted =>
          /\ Len(requests.voice) = Len(scenes)
          /\ Len(requests.video) = Len(scenes)
          /\ \A k \in 1..Len(scenes) :
                /\ requests.voice[k] = "fulfilled"
                /\ requests.video[k] = "fulfilled"
    /\ (Rejected(requests.voice) \cup Rejected(requests.video) # {}) =>
          /\ ~render.submitted
          /\ pc = "thrown"
          /\ thrown # NoError
          /\ job = None

\* a background request failed after another one had completed
BackgroundRejectedAfterFulfilled ==
    /\ Rejected(requests.video) # {}
    /\ \E k \in 1..Len(requests.video) : requests.video[k] = "fulfilled"
    /\ pc = "thrown"

\* the stages of the filter graph with one operation that belong to a scene
SceneStagesWithOp(c, k, op) ==
    {j \in 1..Len(FilterGraph(c)) :
        /\ FilterGraph(c)[j].op = op
        /\ FilterGraph(c)[j].out.i = k - 1}

\* every stage of the first set is emitted before every stage of the second
EmittedBefore(first, second) == \A a \in first : \A b \in second : a < b

\* C27: per scene the stage list is in the order scale/crop, trim, effect
\* chain, caption overlay, audio trim; the effect chain consumes the trimmed
\* stream and is emitted before the caption stage, which consumes the effect
\* chain's output, or the trimmed stream when the scene has no effects.
SceneStagesInOrder ==
    Compiled =>
        \A c \in 1..Len(commands) :
           \A k \in 1..Len(Get(config).scenes) :
              LET scale == SceneStagesWithOp(c, k, "scale_crop")
                  trim == SceneStagesWithOp(c, k, "trim")
                  effects == SceneStagesWithOp(c, k, "effects")
                  caption == SceneStagesWithOp(c, k, "drawtext")
                  audio == SceneStagesWithOp(c, k, "atrim")
                  trimmed == {FilterGraph(c)[j].out : j \in trim}
                  effected == {FilterGraph(c)[j].out : j \in effects}
              IN  /\ Cardinality(scale) = 1
                  /\ Cardinality(trim) = 1
                  /\ EmittedBefore(scale, trim)
                  /\ EmittedBefore(trim, effects)
                  /\ EmittedBefore(effects, caption)
                  /\ EmittedBefore(trim, caption)
                  /\ EmittedBefore(effects \cup caption \cup trim, audio)
                  /\ \A j \in effects :
                        {FilterGraph(c)[j].ins[1]} = trimmed
                  /\ \A j \in caption :
                        {FilterGraph(c)[j].ins[1]}
                            = IF effects # {} THEN effected ELSE trimmed

\* the x/y expression a caption stage places its text with
PlacedAt(stage) ==
    {stage.opts[o].str : o \in {o \in 1..Len(stage.opts) : stage.opts[o].k = "x"}}

\* C28: with captions enabled the caption overlay is positioned per the
\* 'position' field of the style record the caption style id resolves to,
\* for every registered style.
CaptionPlacedPerStyle ==
    (Compiled /\ template.captionStyle \in StyleIds) =>
        \A c \in 1..Len(commands) :
           \A j \in CaptionStages(c) :
              PlacedAt(FilterGraph(c)[j])
                 = {Positions[Get(CaptionStyles[template.captionStyle].position)]}

\* C29: a caption stage is emitted for a scene only if the scene's text is
\* non-empty, even when captions are enabled.
CaptionOnlyForText ==
    Compiled =>
        \A c \in 1..Len(commands) :
           \A k \in 1..Len(Get(config).scenes) :
              SceneStagesWithOp(c, k, "drawtext") # {}
                 => Len(Get(videoParams).scenes[k].text) > 0

====
